---- MODULE Spec2Model ----
(***************************************************************************)
(* Activity feed fan-out engine of can-it-wfc (backend/apps/activity).     *)
(*                                                                         *)
(* State: the follow graph (accounts.Follow), the reviews and visits       *)
(* (reviews.Review, reviews.Visit), the users (accounts.User), the per-user*)
(* activity_visibility (accounts.UserSettings) and the                     *)
(* activities table (activity.Activity).  One action per request handler   *)
(* or management command; the post_save / post_delete receivers of         *)
(* activity/signals.py run inside the action that saves or deletes the     *)
(* entity, as Django runs them synchronously inside save() and delete().   *)
(***************************************************************************)
EXTENDS Integers, Sequences, FiniteSets, TLC

\* ---------------------------------------------------------------- bounds
NumUsers == 2
MaxOps == 3
MaxLimitArg == 2
MaxOffsetArg == 1
MaxBatchSize == 2
SeedReviews == 101

\* ------------------------------------------------------ program constants
\* views.py:44   limit = min(int(request.query_params.get('limit', 50)), 100)
HardMaxLimit == 100

Users == 1..NumUsers

\* accounts/models.py ACTIVITY_VISIBILITY_CHOICES
ACTIVITY_VISIBILITY_CHOICES == {"public", "followers", "private"}

\* Review.wfc_rating is 1..5; reviews are posted with PostedRating, an update
\* picks any rating
Ratings == 1..5
PostedRating == 3

\* activity/models.py ActivityType (the visit fan-out is not wired)
REVIEW == "review"
FOLLOW == "follow"

VARIABLES
    follows,        \* set of Follow rows      [id, follower, followed, created_at]
    reviews,        \* set of Review rows      [id, user, wfc_rating, created_at]
    visits,         \* set of Visit rows       [id, user, created_at]
    visibility,     \* UserSettings.activity_visibility, per user
    users,          \* accounts.User rows: username and the follow counters
    activities,     \* set of Activity rows
    nextReview,     \* next Review primary key
    nextFollow,     \* next Follow primary key
    nextActivity,   \* next Activity primary key
    now,            \* last reading of timezone.now()
    ops,            \* requests and command runs handled so far (deletions not counted)
    last,           \* the last operation and what it returned
    tx              \* the fan-out calls run statement by statement: their
                    \* transaction.atomic blocks, open, committed or rolled back

vars == <<follows, reviews, visits, visibility, users, activities, nextReview,
          nextFollow, nextActivity, now, ops, last, tx>>

data == <<follows, reviews, visits, visibility, users, activities, nextReview,
          nextFollow, nextActivity, now, tx>>

NoTarget == <<"none", 0>>

\* the record every action leaves in `last`
Op(op, user, target, count, delivered, result, limit, offset) ==
    [op |-> op, user |-> user, target |-> target, count |-> count,
     delivered |-> delivered, result |-> result, limit |-> limit,
     offset |-> offset]

Min(a, b) == IF a <= b THEN a ELSE b

\* timezone.now() read by a handler: later than every earlier handler's
\* reading; all rows of one handler carry the same reading
ClockReadings == {now + 1}

\* ------------------------------------------------------- querysets / ORM

\* User.objects.filter(id__in=ids), Meta.ordering = ['-date_joined']:
\* users were registered in id order, the newest comes first
RECURSIVE UserList(_)
UserList(ids) ==
    IF ids = {} THEN <<>>
    ELSE LET u == CHOOSE x \in ids : \A y \in ids : y <= x
         IN  <<u>> \o UserList(ids \ {u})

\* Follow.objects.filter(followed=user).values_list('follower_id', flat=True)
FollowerIds(graph, user) == {f.follower : f \in {x \in graph : x.followed = user}}

\* Follow.objects.filter(follower=viewer, followed=target_user).exists()
FollowExists(viewer, target_user) ==
    \E f \in follows : f.follower = viewer /\ f.followed = target_user

\* variant: only the self-follow is refused
follow_refused_self_only(a, b) == a = b

\* FollowUserView.post: 400 'You cannot follow yourself', 400 'You are
\* already following this user'; Follow.save() raises ValueError on a
\* self-follow and unique_together refuses a second row for the pair
follow_refused(a, b) == a = b \/ FollowExists(a, b)

\* variant: the 'private' branch is missing, private falls through to the
\* followers check
can_view_private_as_followers(viewer, target_user) ==
    IF viewer = target_user THEN TRUE
    ELSE IF visibility[target_user] = "public" THEN TRUE
    ELSE FollowExists(viewer, target_user)

\* variant: the followers branch looks the follow up the wrong way round
can_view_followers_reversed(viewer, target_user) ==
    IF viewer = target_user THEN TRUE
    ELSE IF visibility[target_user] = "public" THEN TRUE
    ELSE IF visibility[target_user] = "private" THEN FALSE
    ELSE FollowExists(target_user, viewer)

\* accounts/utils.py
can_view_user_activity(viewer, target_user) ==
    IF viewer = target_user THEN TRUE
    ELSE IF visibility[target_user] = "public" THEN TRUE
    ELSE IF visibility[target_user] = "private" THEN FALSE
    ELSE IF visibility[target_user] = "followers"
         THEN FollowExists(viewer, target_user)
    ELSE FALSE

\* SelectSeq with a predicate over the model's state
RECURSIVE FilterSeq(_, _)
FilterSeq(s, owner) ==
    IF s = <<>> THEN <<>>
    ELSE (IF can_view_user_activity(Head(s), owner) THEN <<Head(s)>> ELSE <<>>)
         \o FilterSeq(Tail(s), owner)

\* variant: the privacy loop is missing (what _get_all_followers does)
get_visible_followers_unfiltered(user) == UserList(FollowerIds(follows, user))

\* variant: the relation is read the wrong way round, the users `user`
\* follows, and not filtered
get_visible_followers_following(user) ==
    UserList({f.followed : f \in {x \in follows : x.follower = user}})

\* ActivityService._get_visible_followers
get_visible_followers(user) ==
    FilterSeq(UserList(FollowerIds(follows, user)), user)

\* variant: the privacy loop of _get_visible_followers is applied here too
get_all_followers_filtered(graph, user) ==
    FilterSeq(UserList(FollowerIds(graph, user)), user)

\* ActivityService._get_all_followers, reading the follows table `graph`
get_all_followers(graph, user) == UserList(FollowerIds(graph, user))

\* usernames are strings, here sequences of characters; they are unique per
\* user (AbstractUser.username).  User k registered as "user<k>"; one more
\* name of that shape and a short one are free to take
Digits == <<"1", "2", "3", "4", "5", "6", "7", "8", "9">>

Name(k) == <<"u", "s", "e", "r", Digits[k]>>

Usernames == {Name(k) : k \in 1..(NumUsers + 1)} \cup {<<"a", "l">>}

\* User.display_name: the first three characters and asterisks for the
\* rest, if is_anonymous_display is set and the username is longer than 3
display_name(row) ==
    IF row.is_anonymous_display /\ Len(row.username) > 3
    THEN SubSeq(row.username, 1, 3)
         \o [i \in 1..(Len(row.username) - 3) |-> "*"]
    ELSE row.username

\* the users table as the requests that built the follows table `graph`
\* left it: every Follow.save() refreshed both counters
UserRows(graph) ==
    [u \in Users |->
       [username |-> Name(u),
        is_anonymous_display |-> FALSE,
        followers_count |-> Cardinality({f \in graph : f.followed = u}),
        following_count |-> Cardinality({f \in graph : f.follower = u})]]

\* User.update_follow_counts on the users table `rows`, reading `graph`
update_follow_counts(rows, graph, user) ==
    [rows EXCEPT
       ![user].followers_count = Cardinality({f \in graph : f.followed = user}),
       ![user].following_count = Cardinality({f \in graph : f.follower = user})]

\* Follow.save() after super().save(): both users' counters are refreshed
save_follow_counts(rows, graph, follow) ==
    update_follow_counts(update_follow_counts(rows, graph, follow.follower),
                         graph, follow.followed)

\* an unsaved Activity(...) instance; `payload` is its JSON field data
NewActivity(recipient, actor, type, ttype, tid, payload) ==
    [recipient |-> recipient, actor |-> actor, activity_type |-> type,
     target_content_type |-> ttype, target_object_id |-> tid,
     data |-> payload]

\* the snapshot create_review_activity stores in data
review_activity_data(review) ==
    [wfc_rating |-> review.wfc_rating,
     actor_username |-> users[review.user].username,
     actor_display_name |-> display_name(users[review.user])]

\* the snapshot create_follow_activity stores in data
follow_activity_data(follower, followed) ==
    [actor_username |-> users[follower].username,
     actor_display_name |-> display_name(users[follower]),
     target_username |-> users[followed].username,
     target_display_name |-> display_name(users[followed])]

\* Activity.objects.bulk_create(objs): primary keys in list order,
\* created_at = auto_now_add, is_deleted = default False
bulk_create(objs, firstId, t) ==
    {[id |-> firstId + i - 1,
      recipient |-> objs[i].recipient,
      actor |-> objs[i].actor,
      activity_type |-> objs[i].activity_type,
      target_content_type |-> objs[i].target_content_type,
      target_object_id |-> objs[i].target_object_id,
      data |-> objs[i].data,
      created_at |-> t,
      is_deleted |-> FALSE] : i \in 1..Len(objs)}

\* ActivityService.create_review_activity: the list activities_to_create
review_activities_to_create(review) ==
    LET user == review.user
        followers == get_visible_followers(user)
        activity_data == review_activity_data(review)
    IN  <<NewActivity(user, user, REVIEW, REVIEW, review.id, activity_data)>>
        \o [i \in 1..Len(followers) |->
              NewActivity(followers[i], user, REVIEW, REVIEW, review.id,
                          activity_data)]

\* variant: the notification of the followed user goes through the privacy
\* predicate, as the followers of a review's author do
follow_activities_to_create_filtered(graph, follow) ==
    LET follower == follow.follower
        followed == follow.followed
        follower_followers == get_all_followers(graph, follower)
    IN  (IF can_view_user_activity(followed, follower)
            THEN <<NewActivity(followed, follower, FOLLOW, FOLLOW, follow.id,
                               follow_activity_data(follower, followed))>>
            ELSE <<>>)
        \o [i \in 1..Len(follower_followers) |->
              NewActivity(follower_followers[i], follower, FOLLOW, FOLLOW,
                          follow.id, follow_activity_data(follower, followed))]

\* ActivityService.create_follow_activity: the list activities_to_create
follow_activities_to_create(graph, follow) ==
    LET follower == follow.follower
        followed == follow.followed
        follower_followers == get_all_followers(graph, follower)
    IN  <<NewActivity(followed, follower, FOLLOW, FOLLOW, follow.id,
                      follow_activity_data(follower, followed))>>
        \o [i \in 1..Len(follower_followers) |->
              NewActivity(follower_followers[i], follower, FOLLOW, FOLLOW,
                          follow.id, follow_activity_data(follower, followed))]

\* variant: the filter omits target_content_type
soft_delete_any_type(acts, ttype, tid) ==
    {IF a.target_object_id = tid
        THEN [a EXCEPT !.is_deleted = TRUE]
        ELSE a : a \in acts}

\* variant: only the oldest matching row is updated
soft_delete_first_only(acts, ttype, tid) ==
    {IF /\ a.target_content_type = ttype /\ a.target_object_id = tid
        /\ \A b \in acts : (b.target_content_type = ttype
                              /\ b.target_object_id = tid) => a.id <= b.id
        THEN [a EXCEPT !.is_deleted = TRUE]
        ELSE a : a \in acts}

\* variant: the update toggles the flag instead of setting it
soft_delete_toggle(acts, ttype, tid) ==
    {IF a.target_content_type = ttype /\ a.target_object_id = tid
        THEN [a EXCEPT !.is_deleted = ~a.is_deleted]
        ELSE a : a \in acts}

\* ActivityService.soft_delete_activities: filter(...).update(is_deleted=True)
soft_delete_activities(acts, ttype, tid) ==
    {IF a.target_content_type = ttype /\ a.target_object_id = tid
        THEN [a EXCEPT !.is_deleted = TRUE]
        ELSE a : a \in acts}

\* the count soft_delete_activities returns: rows matched by the filter
soft_delete_count(acts, ttype, tid) ==
    Cardinality({a \in acts : a.target_content_type = ttype
                              /\ a.target_object_id = tid})

\* ------------------------------------------------------------ feed reader

\* rows with equal created_at come back in any order
RECURSIVE AnyOrder(_)
AnyOrder(S) ==
    IF S = {} THEN {<<>>}
    ELSE UNION {{<<r>> \o s : s \in AnyOrder(S \ {r})} : r \in S}

\* order_by('-created_at') over rows created in lo..hi: every order the
\* database may return (the newer half first, then the older half)
RECURSIVE OrderByDescIn(_, _, _)
OrderByDescIn(S, lo, hi) ==
    IF S = {} THEN {<<>>}
    ELSE IF lo >= hi THEN AnyOrder(S)
    ELSE LET mid == (lo + hi) \div 2
             newer == {r \in S : r.created_at > mid}
         IN  {a \o b : a \in OrderByDescIn(newer, mid + 1, hi),
                       b \in OrderByDescIn(S \ newer, lo, mid)}

OrderByDesc(S, t) == OrderByDescIn(S, 0, t)

\* queryset[start:stop]
Slice(s, start, stop) ==
    IF stop <= start \/ start >= Len(s) THEN <<>>
    ELSE SubSeq(s, start + 1, Min(stop, Len(s)))

\* ActivityService.get_user_feed: the possible results; slicing a queryset
\* with a negative bound raises ("Negative indexing is not supported.")
FeedRaises(limit, offset) == offset < 0 \/ offset + limit < 0

\* variant: the is_deleted filter is missing
get_user_feed_with_deleted(user, limit, offset) ==
    {Slice(s, offset, offset + limit) :
       s \in OrderByDesc({a \in activities : a.recipient = user}, now)}

\* variant: the privacy predicate is applied again at read time
get_user_feed_read_time_privacy(user, limit, offset) ==
    {Slice(s, offset, offset + limit) :
       s \in OrderByDesc({a \in activities :
                            /\ a.recipient = user
                            /\ a.is_deleted = FALSE
                            /\ can_view_user_activity(user, a.actor)}, now)}

get_user_feed(user, limit, offset) ==
    {Slice(s, offset, offset + limit) :
       s \in OrderByDesc({a \in activities : a.recipient = user
                                             /\ a.is_deleted = FALSE}, now)}

\* variant: the query parameter is passed on unclamped
view_limit_unclamped(n) == n

\* ActivityFeedView.get: the clamp
view_limit(n) == Min(n, HardMaxLimit)

\* ---------------------------------------------------------------- Init
Init ==
    /\ follows = {}
    /\ reviews = {}
    /\ visits = {}
    /\ visibility = [u \in Users |-> "public"]
    /\ users = UserRows({})
    /\ activities = {}
    /\ nextReview = 1
    /\ nextFollow = 1
    /\ nextActivity = 1
    /\ now = 0
    /\ ops = 0
    /\ last = Op("init", 0, NoTarget, 0, {}, <<>>, 0, 0)
    /\ tx = {}

\* -------------------------------------------------------------- actions

\* ReviewCreateView -> Review.save() -> post_save receiver
\* signals.create_review_activity (created == True)
ReviewCreate(u, t) ==
    /\ ops < MaxOps
    /\ ops' = ops + 1
    /\ LET review == [id |-> nextReview, user |-> u, wfc_rating |-> PostedRating,
                      created_at |-> t]
           objs == review_activities_to_create(review)
       IN  /\ reviews' = reviews \cup {review}
           /\ activities' = activities \cup bulk_create(objs, nextActivity, t)
           /\ nextActivity' = nextActivity + Len(objs)
           /\ last' = Op("review_created", u, <<REVIEW, review.id>>, Len(objs),
                         {<<REVIEW, review.id>>}, <<>>, 0, 0)
    /\ nextReview' = nextReview + 1
    /\ now' = t
    /\ UNCHANGED <<visits, follows, visibility, users, nextFollow, tx>>

\* ReviewDetailView.perform_destroy: soft_delete_activities, then
\* instance.delete(), whose post_delete receiver soft-deletes again
ReviewDestroy(r) ==
    /\ r \in reviews
    /\ LET first == soft_delete_activities(activities, REVIEW, r.id)
           second == soft_delete_activities(first, REVIEW, r.id)
       IN  /\ activities' = second
           /\ last' = Op("review_deleted", r.user, <<REVIEW, r.id>>,
                         soft_delete_count(first, REVIEW, r.id), {}, <<>>, 0, 0)
    /\ reviews' = reviews \ {r}
    /\ UNCHANGED <<visits, follows, visibility, users, nextReview, nextFollow,
                   nextActivity, now, ops, tx>>

\* FollowUserView.post -> Follow.objects.create -> Follow.save() ->
\* post_save receiver signals.create_follow_activity, which runs after the
\* row is inserted and so reads the follow graph that contains it
FollowUser(a, b, t) ==
    /\ ops < MaxOps
    /\ ops' = ops + 1
    /\ ~follow_refused(a, b)
    /\ UNCHANGED <<visits, reviews, visibility, nextReview, tx>>
    /\ LET follow == [id |-> nextFollow, follower |-> a, followed |-> b,
                      created_at |-> t]
       IN  /\ follows' = follows \cup {follow}
           /\ users' = save_follow_counts(users, follows \cup {follow}, follow)
           /\ LET objs == follow_activities_to_create(follows \cup {follow}, follow)
              IN  /\ activities' = activities \cup bulk_create(objs, nextActivity, t)
                  /\ nextActivity' = nextActivity + Len(objs)
                  /\ last' = Op("follow_created", a, <<FOLLOW, follow.id>>,
                                Len(objs), {<<FOLLOW, follow.id>>}, <<>>, 0, 0)
    /\ nextFollow' = nextFollow + 1
    /\ now' = t

\* UnfollowUserView.delete: Follow.objects.filter(...).delete() sends
\* post_delete for the row, whose receiver soft-deletes its activities; a
\* queryset delete does not call Follow.delete(), the counters are not
\* refreshed
UnfollowUser(a, b) ==
    /\ FollowExists(a, b)
    /\ LET gone == {f \in follows : f.follower = a /\ f.followed = b}
           f == CHOOSE x \in gone : TRUE
       IN  /\ follows' = follows \ gone
           /\ activities' = soft_delete_activities(activities, FOLLOW, f.id)
           /\ last' = Op("follow_removed", a, <<FOLLOW, f.id>>,
                         soft_delete_count(activities, FOLLOW, f.id), {}, <<>>,
                         0, 0)
    /\ UNCHANGED <<visits, reviews, visibility, users, nextReview, nextFollow,
                   nextActivity, now, ops, tx>>

\* UserSettingsUpdateView (RetrieveUpdateAPIView over request.user.settings)
UpdateSettings(u, v) ==
    /\ ops < MaxOps
    /\ ops' = ops + 1
    /\ visibility[u] # v
    /\ visibility' = [visibility EXCEPT ![u] = v]
    /\ last' = Op("settings_updated", u, NoTarget, 0, {}, <<>>, 0, 0)
    /\ UNCHANGED <<visits, follows, reviews, users, activities, nextReview,
                   nextFollow, nextActivity, now, tx>>

\* ------------------------------------------------------------- backfill

\* order_by('created_at'): every order the database may return
RECURSIVE OrderByAsc(_, _)
OrderByAsc(S, t) ==
    IF S = {} THEN {<<>>}
    ELSE LET low == {r \in S : r.created_at = t}
         IN  IF low = {} THEN OrderByAsc(S, t + 1)
             ELSE UNION {{<<r>> \o s : s \in OrderByAsc(S \ {r}, t)} : r \in low}

\* variant: the last, partial batch is not processed
BatchedItems_full_batches_only(S, i, batch_size) ==
    LET RECURSIVE Run(_)
        Run(k) == IF k + batch_size > Cardinality(S) THEN {<<>>}
                  ELSE {Slice(q, k, k + batch_size) \o rest :
                          q \in OrderByAsc(S, 0), rest \in Run(k + batch_size)}
    IN  Run(i)

\* for i in range(0, total, batch_size): batch = qs[i:i + batch_size];
\* for item in batch: ...   -- the items in the order they are processed.
\* qs is an unevaluated queryset over the rows S with order_by('created_at'):
\* total is counted once, every slice is a query of its own, and rows with
\* equal created_at may come back in a different order from one query to
\* the next
BatchedItems(S, i, batch_size) ==
    LET RECURSIVE Run(_)
        Run(k) == IF k >= Cardinality(S) THEN {<<>>}
                  ELSE {Slice(q, k, k + batch_size) \o rest :
                          q \in OrderByAsc(S, 0), rest \in Run(k + batch_size)}
    IN  Run(i)

\* the inner loop of _backfill_reviews: one create_review_activity per item
RECURSIVE BackfillReviewRows(_, _, _)
BackfillReviewRows(items, firstId, t) ==
    IF items = <<>> THEN {}
    ELSE LET objs == review_activities_to_create(Head(items))
         IN  bulk_create(objs, firstId, t)
             \cup BackfillReviewRows(Tail(items), firstId + Len(objs), t)

\* the inner loop of _backfill_follows: one create_follow_activity per item
RECURSIVE BackfillFollowRows(_, _, _)
BackfillFollowRows(items, firstId, t) ==
    IF items = <<>> THEN {}
    ELSE LET objs == follow_activities_to_create(follows, Head(items))
         IN  bulk_create(objs, firstId, t)
             \cup BackfillFollowRows(Tail(items), firstId + Len(objs), t)

\* backfill_activities Command.handle: _backfill_visits writes nothing,
\* then _backfill_reviews, then _backfill_follows
Backfill(cutoff, batch_size, dry_run, t) ==
    /\ ops < MaxOps
    /\ ops' = ops + 1
    /\ UNCHANGED <<visits, follows, reviews, visibility, users, nextReview,
                   nextFollow, tx>>
    /\ \E ritems \in BatchedItems({r \in reviews : r.created_at >= cutoff},
                                   0, batch_size),
          fitems \in BatchedItems({f \in follows : f.created_at >= cutoff},
                                   0, batch_size) :
         IF dry_run
         THEN /\ UNCHANGED <<activities, nextActivity, now>>
              /\ last' = Op("backfill_dry_run", 0, NoTarget, 0, {}, <<>>, 0, 0)
         ELSE LET rrows == BackfillReviewRows(ritems, nextActivity, t)
                  frows == BackfillFollowRows(fitems,
                               nextActivity + Cardinality(rrows), t)
              IN  /\ activities' = activities \cup rrows \cup frows
                  /\ nextActivity' = nextActivity + Cardinality(rrows)
                                                  + Cardinality(frows)
                  /\ now' = t
                  /\ last' = [op |-> "backfill", user |-> 0,
                              target |-> NoTarget,
                              count |-> Len(ritems) + Len(fitems),
                              delivered |->
                                {<<REVIEW, ritems[i].id>> : i \in 1..Len(ritems)}
                                \cup {<<FOLLOW, fitems[i].id>> :
                                        i \in 1..Len(fitems)},
                              result |-> <<>>, limit |-> 0, offset |-> 0,
                              cutoff |-> cutoff,
                              calls |->
                                [i \in 1..Len(ritems) |-> <<REVIEW, ritems[i].id>>]
                                \o [i \in 1..Len(fitems) |->
                                      <<FOLLOW, fitems[i].id>>]]

\* ----------------------------------------------------------- feed reads

\* a direct call of ActivityService.get_user_feed(user, limit, offset)
GetUserFeed(u, limit, offset) ==
    /\ ops < MaxOps
    /\ ops' = ops + 1
    /\ UNCHANGED data
    /\ IF FeedRaises(limit, offset)
       THEN last' = Op("get_user_feed_raised", u, NoTarget, 0, {}, <<>>,
                       limit, offset)
       ELSE \E res \in get_user_feed(u, limit, offset) :
              last' = Op("get_user_feed", u, NoTarget, Len(res), {}, res,
                         limit, offset)

\* ActivityFeedView.get with query parameter limit = n
FeedView(u, n) ==
    /\ ops < MaxOps
    /\ ops' = ops + 1
    /\ UNCHANGED data
    /\ LET limit == view_limit(n)
       IN  IF FeedRaises(limit, 0)
           THEN last' = Op("feed_view_raised", u, NoTarget, 0, {}, <<>>, n, 0)
           ELSE \E res \in get_user_feed(u, limit, 0) :
                  last' = Op("feed_view", u, NoTarget, Len(res), {}, res, n, 0)

\* ------------------------------------------------------- specifications
LimitArgs == (-1)..MaxLimitArg
OffsetArgs == 0..MaxOffsetArg
BatchSizes == 1..MaxBatchSize

Next ==
    \/ \E u \in Users, t \in ClockReadings : ReviewCreate(u, t)
    \/ \E r \in reviews : ReviewDestroy(r)
    \/ \E a \in Users, b \in Users, t \in ClockReadings : FollowUser(a, b, t)
    \/ \E a \in Users, b \in Users : UnfollowUser(a, b)
    \/ \E u \in Users, v \in ACTIVITY_VISIBILITY_CHOICES : UpdateSettings(u, v)
    \/ \E c \in 0..(now + 1), bs \in BatchSizes, d \in BOOLEAN,
          t \in ClockReadings : Backfill(c, bs, d, t)
    \/ \E u \in Users, l \in LimitArgs, o \in OffsetArgs : GetUserFeed(u, l, o)

Spec == Init /\ [][Next]_vars

\* every creation event is delivered once: the requests without the
\* backfill command
NextOnce ==
    \/ \E u \in Users, t \in ClockReadings : ReviewCreate(u, t)
    \/ \E r \in reviews : ReviewDestroy(r)
    \/ \E a \in Users, b \in Users, t \in ClockReadings : FollowUser(a, b, t)
    \/ \E a \in Users, b \in Users : UnfollowUser(a, b)
    \/ \E u \in Users, v \in ACTIVITY_VISIBILITY_CHOICES : UpdateSettings(u, v)
    \/ \E u \in Users, l \in LimitArgs, o \in OffsetArgs : GetUserFeed(u, l, o)

SpecOnce == Init /\ [][NextOnce]_vars

\* the feed reader on a long feed: user 1 has posted n reviews and nobody
\* follows anybody, the state n ReviewCreate(1, t) requests lead to; one
\* request, the read, is left to handle
SeededReviews(n) ==
    {[id |-> i, user |-> 1, wfc_rating |-> PostedRating, created_at |-> i] :
       i \in 1..n}

SeededActivities(n) ==
    UNION {bulk_create(<<NewActivity(1, 1, REVIEW, REVIEW, i,
                                     review_activity_data(
                                         [user |-> 1,
                                          wfc_rating |-> PostedRating]))>>,
                       i, i) : i \in 1..n}

InitFeed ==
    \E n \in (SeedReviews - 2)..SeedReviews :
        /\ follows = {}
        /\ reviews = SeededReviews(n)
        /\ visits = {}
        /\ visibility = [u \in Users |-> "public"]
        /\ users = UserRows({})
        /\ activities = SeededActivities(n)
        /\ nextReview = n + 1
        /\ nextFollow = 1
        /\ nextActivity = n + 1
        /\ now = n
        /\ ops = MaxOps - 1
        /\ last = Op("init", 0, NoTarget, 0, {}, <<>>, 0, 0)
        /\ tx = {}

FeedLimitArgs == LimitArgs \cup ((HardMaxLimit - 1)..(HardMaxLimit + 2))

NextFeed ==
    \/ \E u \in Users, l \in FeedLimitArgs, o \in OffsetArgs : GetUserFeed(u, l, o)
    \/ \E u \in Users, n \in FeedLimitArgs : FeedView(u, n)

SpecFeed == InitFeed /\ [][NextFeed]_vars

\* ------------------------------------- the fan-out, statement by statement

\* variant: the service method is not wrapped in transaction.atomic and
\* every inserted row is committed on its own
visible_after_insert_autocommit(acts, rows) == acts \cup rows

\* what the other connections read from the activities table after rows
\* were inserted inside a transaction.atomic block that is still open
visible_after_insert(acts, rows) == acts

\* one call of create_review_activity / create_follow_activity: its
\* transaction.atomic block, the list activities_to_create, the primary
\* keys its rows take and how many rows bulk_create has inserted so far
Call(target, actor, objs, firstId, t) ==
    [target |-> target, actor |-> actor, objs |-> objs, firstId |-> firstId,
     t |-> t, written |-> 0, status |-> "open"]

OpenCalls == {c \in tx : c.status = "open"}

\* the rows a call has inserted so far
CallRows(c) == bulk_create(SubSeq(c.objs, 1, c.written), c.firstId, c.t)

\* Review.save() commits the review; its post_save receiver enters
\* create_review_activity, which builds activities_to_create
ReviewCreateBegin(u, t) ==
    /\ ops < MaxOps
    /\ ops' = ops + 1
    /\ LET review == [id |-> nextReview, user |-> u, wfc_rating |-> PostedRating,
                      created_at |-> t]
           objs == review_activities_to_create(review)
       IN  /\ reviews' = reviews \cup {review}
           /\ tx' = tx \cup {Call(<<REVIEW, review.id>>, u, objs, nextActivity, t)}
           /\ nextActivity' = nextActivity + Len(objs)
           /\ last' = Op("review_saved", u, <<REVIEW, review.id>>, 0, {}, <<>>,
                         0, 0)
    /\ nextReview' = nextReview + 1
    /\ now' = t
    /\ UNCHANGED <<visits, follows, visibility, users, activities, nextFollow>>

\* Follow.objects.create commits the follow; its post_save receiver enters
\* create_follow_activity, which builds activities_to_create
FollowUserBegin(a, b, t) ==
    /\ ops < MaxOps
    /\ ops' = ops + 1
    /\ ~follow_refused(a, b)
    /\ LET follow == [id |-> nextFollow, follower |-> a, followed |-> b,
                      created_at |-> t]
           objs == follow_activities_to_create(follows \cup {follow}, follow)
       IN  /\ follows' = follows \cup {follow}
           /\ tx' = tx \cup {Call(<<FOLLOW, follow.id>>, a, objs, nextActivity, t)}
           /\ nextActivity' = nextActivity + Len(objs)
           /\ last' = Op("follow_saved", a, <<FOLLOW, follow.id>>, 0, {}, <<>>,
                         0, 0)
    /\ nextFollow' = nextFollow + 1
    /\ now' = t
    /\ UNCHANGED <<visits, reviews, visibility, users, activities, nextReview>>

\* the receiver has returned to the save() that sent post_save: Follow.save()
\* goes on to refresh the counters of the follower (the call's actor) and of
\* the followed user (the recipient of the call's first row); Review.save()
\* has nothing left to do
counts_after_receiver(c) ==
    IF c.target[1] = FOLLOW
    THEN update_follow_counts(update_follow_counts(users, follows, c.actor),
                              follows, c.objs[1].recipient)
    ELSE users

\* Activity.objects.bulk_create(activities_to_create): the next row of the
\* INSERT is written inside the open transaction
BulkCreateRow(c) ==
    /\ c \in OpenCalls
    /\ c.written < Len(c.objs)
    /\ LET d == [c EXCEPT !.written = c.written + 1]
       IN  /\ tx' = (tx \ {c}) \cup {d}
           /\ activities' = visible_after_insert(activities, CallRows(d))
           /\ last' = Op("bulk_create_row", c.actor, c.target, d.written, {},
                         <<>>, 0, 0)
    /\ UNCHANGED <<visits, follows, reviews, visibility, users, nextReview,
                   nextFollow, nextActivity, now, ops>>

\* the transaction.atomic block is left normally: the commit publishes the
\* rows, the method returns len(activities_to_create)
AtomicCommit(c) ==
    /\ c \in OpenCalls
    /\ c.written = Len(c.objs)
    /\ tx' = (tx \ {c}) \cup {[c EXCEPT !.status = "committed"]}
    /\ activities' = activities \cup CallRows(c)
    /\ users' = counts_after_receiver(c)
    /\ last' = Op("fanout_committed", c.actor, c.target, Len(c.objs),
                  {c.target}, <<>>, 0, 0)
    /\ UNCHANGED <<visits, follows, reviews, visibility, nextReview,
                   nextFollow, nextActivity, now, ops>>

\* a statement of the block raises: transaction.atomic rolls the block
\* back, the receiver logs the exception
AtomicRollback(c) ==
    /\ c \in OpenCalls
    /\ tx' = (tx \ {c}) \cup {[c EXCEPT !.status = "rolled_back"]}
    /\ users' = counts_after_receiver(c)
    /\ last' = Op("fanout_rolled_back", c.actor, c.target, 0, {}, <<>>, 0, 0)
    /\ UNCHANGED <<visits, follows, reviews, visibility, activities,
                   nextReview, nextFollow, nextActivity, now, ops>>

\* a feed request served by another worker while fan-outs are running:
\* the first page of ActivityService.get_user_feed
ConcurrentRead(u) ==
    /\ \E res \in get_user_feed(u, HardMaxLimit, 0) :
          last' = Op("get_user_feed", u, NoTarget, Len(res), {}, res,
                     HardMaxLimit, 0)
    /\ UNCHANGED <<data, ops>>

\* user 2 follows user 1, the state FollowUser(2, 1, 1) leads to; the
\* requests that follow are handled concurrently
InitOneFollow ==
    LET follow == [id |-> 1, follower |-> 2, followed |-> 1, created_at |-> 1]
        objs == follow_activities_to_create({follow}, follow)
    IN  /\ follows = {follow}
        /\ reviews = {}
        /\ visits = {}
        /\ visibility = [u \in Users |-> "public"]
        /\ users = UserRows({follow})
        /\ activities = bulk_create(objs, 1, 1)
        /\ nextReview = 1
        /\ nextFollow = 2
        /\ nextActivity = 1 + Len(objs)
        /\ now = 1
        /\ ops = 1
        /\ last = Op("follow_created", 2, <<FOLLOW, 1>>, Len(objs),
                     {<<FOLLOW, 1>>}, <<>>, 0, 0)
        /\ tx = {}

\* concurrent requests: saves, the statements of the open fan-outs in any
\* interleaving, and feed reads
NextTx ==
    \/ \E u \in Users, t \in ClockReadings : ReviewCreateBegin(u, t)
    \/ \E a \in Users, b \in Users, t \in ClockReadings : FollowUserBegin(a, b, t)
    \/ \E c \in tx : BulkCreateRow(c)
    \/ \E c \in tx : AtomicCommit(c)
    \/ \E c \in tx : AtomicRollback(c)
    \/ \E u \in Users : ConcurrentRead(u)

SpecTx == InitOneFollow /\ [][NextTx]_vars

\* the same, with the requests that delete a review or a follow: their
\* soft delete is an UPDATE that sees the committed activities only
NextRace ==
    \/ \E u \in Users, t \in ClockReadings : ReviewCreateBegin(u, t)
    \/ \E a \in Users, b \in Users, t \in ClockReadings : FollowUserBegin(a, b, t)
    \/ \E c \in tx : BulkCreateRow(c)
    \/ \E c \in tx : AtomicCommit(c)
    \/ \E c \in tx : AtomicRollback(c)
    \/ \E r \in reviews : ReviewDestroy(r)
    \/ \E a \in Users, b \in Users : UnfollowUser(a, b)

SpecRace == InitOneFollow /\ [][NextRace]_vars

\* ------------------------------------------- requests whose fan-out fails

\* variant: the receiver has no try/except, the exception of the service
\* call leaves the receiver and the save() that sent the signal
receiver_outcome_unhandled(service_raised) ==
    IF service_raised THEN "raised" ELSE "returned"

\* signals.py receivers: try: ActivityService...  except Exception: log
receiver_outcome(service_raised) == "returned"

\* ReviewCreateView, create_review_activity raises: transaction.atomic
\* rolls its rows back, the post_save receiver logs, save() returns
ReviewCreateFanoutFails(u, t) ==
    /\ ops < MaxOps
    /\ ops' = ops + 1
    /\ LET review == [id |-> nextReview, user |-> u, wfc_rating |-> PostedRating,
                      created_at |-> t]
       IN  /\ reviews' = reviews \cup {review}
           /\ last' = Op("review_created_fanout_failed", u,
                         <<REVIEW, review.id>>, 0, {},
                         <<receiver_outcome(TRUE)>>, 0, 0)
    /\ nextReview' = nextReview + 1
    /\ now' = t
    /\ UNCHANGED <<visits, follows, visibility, users, activities, nextFollow,
                   nextActivity, tx>>

\* FollowUserView.post, create_follow_activity raises: as above, then
\* Follow.save() goes on to update the counters
FollowUserFanoutFails(a, b, t) ==
    /\ ops < MaxOps
    /\ ops' = ops + 1
    /\ ~follow_refused(a, b)
    /\ LET follow == [id |-> nextFollow, follower |-> a, followed |-> b,
                      created_at |-> t]
       IN  /\ follows' = follows \cup {follow}
           /\ users' = save_follow_counts(users, follows \cup {follow}, follow)
           /\ last' = Op("follow_created_fanout_failed", a,
                         <<FOLLOW, follow.id>>, 0, {},
                         <<receiver_outcome(TRUE)>>, 0, 0)
    /\ nextFollow' = nextFollow + 1
    /\ now' = t
    /\ UNCHANGED <<visits, reviews, visibility, activities, nextReview,
                   nextActivity, tx>>

\* ReviewDetailView.perform_destroy, soft_delete_activities raises.
\* at = "view": the call of line 222, outside any try: the exception leaves
\* perform_destroy, instance.delete() is not reached and transaction.atomic
\* rolls back.  at = "receiver": the call inside the post_delete receiver,
\* which logs; the first soft delete and the deletion stay
ReviewDestroySoftDeleteFails(r, at) ==
    /\ r \in reviews
    /\ IF at = "view"
       THEN /\ UNCHANGED <<reviews, activities>>
            /\ last' = Op("review_delete_soft_delete_failed", r.user,
                          <<REVIEW, r.id>>, 0, {}, <<"raised">>, 0, 0)
       ELSE /\ reviews' = reviews \ {r}
            /\ activities' = soft_delete_activities(activities, REVIEW, r.id)
            /\ last' = Op("review_delete_soft_delete_failed", r.user,
                          <<REVIEW, r.id>>,
                          soft_delete_count(activities, REVIEW, r.id), {},
                          <<receiver_outcome(TRUE)>>, 0, 0)
    /\ UNCHANGED <<visits, follows, visibility, users, nextReview, nextFollow,
                   nextActivity, now, ops, tx>>

\* UnfollowUserView.delete, soft_delete_activities raises inside the
\* post_delete receiver, which logs; the follow is deleted
UnfollowUserSoftDeleteFails(a, b) ==
    /\ FollowExists(a, b)
    /\ LET gone == {f \in follows : f.follower = a /\ f.followed = b}
           f == CHOOSE x \in gone : TRUE
       IN  /\ follows' = follows \ gone
           /\ last' = Op("follow_remove_soft_delete_failed", a,
                         <<FOLLOW, f.id>>, 0, {}, <<receiver_outcome(TRUE)>>,
                         0, 0)
    /\ UNCHANGED <<visits, reviews, visibility, users, activities, nextReview,
                   nextFollow, nextActivity, now, ops, tx>>

\* variant: no try/except around the item, the first exception ends the loop
item_outcomes_abort(items, failing) ==
    [i \in 1..Len(items) |->
        IF \E j \in 1..(i - 1) : items[j].id \in failing THEN "skipped"
        ELSE IF items[i].id \in failing THEN "failed"
        ELSE "processed"]

\* _backfill_reviews / _backfill_follows: try: with transaction.atomic():
\* create_..._activity(item); processed += 1  except Exception: failed += 1
item_outcomes(items, failing) ==
    [i \in 1..Len(items) |->
        IF items[i].id \in failing THEN "failed" ELSE "processed"]

\* the rows the loop over `items` writes, the failing items writing none
RECURSIVE BackfillRowsUnlessFailed(_, _, _, _, _)
BackfillRowsUnlessFailed(kind, items, outcomes, firstId, t) ==
    IF items = <<>> THEN {}
    ELSE LET objs == IF Head(outcomes) # "processed" THEN <<>>
                     ELSE IF kind = REVIEW
                          THEN review_activities_to_create(Head(items))
                          ELSE follow_activities_to_create(follows, Head(items))
         IN  bulk_create(objs, firstId, t)
             \cup BackfillRowsUnlessFailed(kind, Tail(items), Tail(outcomes),
                                           firstId + Len(objs), t)

CountOf(outcomes, what) ==
    Cardinality({i \in 1..Len(outcomes) : outcomes[i] = what})

\* backfill_activities Command.handle (not a dry run) in which
\* create_review_activity raises for the reviews failingReviews and
\* create_follow_activity for the follows failingFollows
BackfillWithFailures(cutoff, batch_size, failingReviews, failingFollows, t) ==
    /\ ops < MaxOps
    /\ ops' = ops + 1
    /\ UNCHANGED <<visits, follows, reviews, visibility, users, nextReview,
                   nextFollow, tx>>
    /\ \E ritems \in BatchedItems({r \in reviews : r.created_at >= cutoff},
                                   0, batch_size),
          fitems \in BatchedItems({f \in follows : f.created_at >= cutoff},
                                   0, batch_size) :
         LET routs == item_outcomes(ritems, failingReviews)
             fouts == item_outcomes(fitems, failingFollows)
             rrows == BackfillRowsUnlessFailed(REVIEW, ritems, routs,
                                               nextActivity, t)
             frows == BackfillRowsUnlessFailed(FOLLOW, fitems, fouts,
                          nextActivity + Cardinality(rrows), t)
             done(kind, items, outs, what) ==
                 {<<kind, items[i].id>> : i \in {j \in 1..Len(items) : outs[j] = what}}
         IN  /\ activities' = activities \cup rrows \cup frows
             /\ nextActivity' = nextActivity + Cardinality(rrows)
                                             + Cardinality(frows)
             /\ now' = t
             /\ last' = [op |-> "backfill_with_failures", user |-> 0,
                         target |-> NoTarget,
                         count |-> Len(ritems) + Len(fitems),
                         delivered |-> done(REVIEW, ritems, routs, "processed")
                                       \cup done(FOLLOW, fitems, fouts, "processed"),
                         result |-> <<>>, limit |-> 0, offset |-> 0,
                         selected |-> {<<REVIEW, r.id>> : r \in {x \in reviews : x.created_at >= cutoff}}
                                      \cup {<<FOLLOW, f.id>> : f \in {x \in follows : x.created_at >= cutoff}},
                         failed_items |-> done(REVIEW, ritems, routs, "failed")
                                          \cup done(FOLLOW, fitems, fouts, "failed"),
                         total |->
                           <<Cardinality({r \in reviews : r.created_at >= cutoff}),
                             Cardinality({f \in follows : f.created_at >= cutoff})>>,
                         processed |-> <<CountOf(routs, "processed"),
                                         CountOf(fouts, "processed")>>,
                         failed |-> <<CountOf(routs, "failed"),
                                      CountOf(fouts, "failed")>>]

\* the requests and the backfill command, every fan-out and every soft
\* delete of which may fail
NextFail ==
    \/ \E u \in Users, t \in ClockReadings : ReviewCreate(u, t)
    \/ \E u \in Users, t \in ClockReadings : ReviewCreateFanoutFails(u, t)
    \/ \E r \in reviews : ReviewDestroy(r)
    \/ \E r \in reviews, at \in {"view", "receiver"} :
          ReviewDestroySoftDeleteFails(r, at)
    \/ \E a \in Users, b \in Users, t \in ClockReadings : FollowUser(a, b, t)
    \/ \E a \in Users, b \in Users, t \in ClockReadings :
          FollowUserFanoutFails(a, b, t)
    \/ \E a \in Users, b \in Users : UnfollowUser(a, b)
    \/ \E a \in Users, b \in Users : UnfollowUserSoftDeleteFails(a, b)
    \/ \E c \in 0..(now + 1), bs \in BatchSizes,
          fr \in SUBSET {r.id : r \in reviews},
          ff \in SUBSET {f.id : f \in follows},
          t \in ClockReadings : BackfillWithFailures(c, bs, fr, ff, t)

SpecFail == InitOneFollow /\ [][NextFail]_vars

\* ------------------------------------------------ cleanup_visit_activities

\* activity/models.py ActivityType.VISIT (deprecated)
VISIT == "visit"

\* ActivityService.create_visit_activity: the list activities_to_create
visit_activities_to_create(visit) ==
    LET user == visit.user
        followers == get_visible_followers(user)
        activity_data == [actor_username |-> users[user].username,
                          actor_display_name |-> display_name(users[user])]
    IN  <<NewActivity(user, user, VISIT, VISIT, visit.id, activity_data)>>
        \o [i \in 1..Len(followers) |->
              NewActivity(followers[i], user, VISIT, VISIT, visit.id,
                          activity_data)]

\* ActivityService.create_visit_activity(visit), which no receiver calls
\* any more: the rows the visit receiver wrote while it was wired, here for
\* a visit of that time (visit t, saved at clock reading t, not in visits)
CreateVisitActivity(u, t) ==
    /\ ops < MaxOps
    /\ ops' = ops + 1
    /\ LET objs == visit_activities_to_create([id |-> t, user |-> u])
       IN  /\ activities' = activities \cup bulk_create(objs, nextActivity, t)
           /\ nextActivity' = nextActivity + Len(objs)
           /\ last' = Op("visit_activity_created", u, <<VISIT, t>>, Len(objs),
                         {<<VISIT, t>>}, <<>>, 0, 0)
    /\ now' = t
    /\ UNCHANGED <<visits, follows, reviews, visibility, users, nextReview,
                   nextFollow, tx>>

\* what the operator types at 'Are you sure you want to continue? (yes/no): '
Answers == {"yes", "YES", "y", "no", ""}

\* str.lower() on the answers above
lower(s) == IF s = "YES" THEN "yes" ELSE s

\* variant: the answer is not looked at
confirmed_whatever(answer) == TRUE

\* cleanup_visit_activities: if confirm.lower() != 'yes': ... return
confirmed(answer) == lower(answer) = "yes"

\* Activity.objects.filter(activity_type=ActivityType.VISIT, is_deleted=False)
visit_activities(acts) ==
    {a \in acts : a.activity_type = VISIT /\ a.is_deleted = FALSE}

\* variant: the update flips the flag of every visit row
visit_soft_delete_flip(acts) ==
    {IF a.activity_type = VISIT
        THEN [a EXCEPT !.is_deleted = ~a.is_deleted]
        ELSE a : a \in acts}

\* cleanup_visit_activities: visit_activities.update(is_deleted=True)
visit_soft_delete(acts) ==
    {IF a \in visit_activities(acts)
        THEN [a EXCEPT !.is_deleted = TRUE]
        ELSE a : a \in acts}

\* cleanup_visit_activities Command.handle; the answer is read only when
\* the prompt is reached
CleanupVisitActivities(dry_run, hard_delete, answer) ==
    /\ LET matched == visit_activities(activities)
           count == Cardinality(matched)
           outcome == IF dry_run THEN "dry_run"
                      ELSE IF count = 0 THEN "nothing_to_clean"
                      ELSE IF ~confirmed(answer) THEN "cancelled"
                      ELSE IF hard_delete THEN "hard_deleted"
                      ELSE "soft_deleted"
       IN  /\ activities' =
                 IF outcome = "hard_deleted" THEN activities \ matched
                 ELSE IF outcome = "soft_deleted"
                      THEN visit_soft_delete(activities)
                 ELSE activities
           /\ last' = [op |-> "cleanup_visit_activities", user |-> 0,
                       target |-> NoTarget, count |-> count, delivered |-> {},
                       result |-> <<outcome>>, limit |-> 0, offset |-> 0,
                       dry_run |-> dry_run, hard_delete |-> hard_delete,
                       answer |-> IF outcome \in {"dry_run", "nothing_to_clean"}
                                  THEN "" ELSE answer]
    /\ UNCHANGED <<visits, follows, reviews, visibility, users, nextReview,
                   nextFollow, nextActivity, now, ops, tx>>

\* a database that holds visit activities next to the others, and the
\* cleanup command run on it
NextPurge ==
    \/ \E u \in Users, t \in ClockReadings : CreateVisitActivity(u, t)
    \/ \E u \in Users, t \in ClockReadings : ReviewCreate(u, t)
    \/ \E d \in BOOLEAN, h \in BOOLEAN, ans \in Answers :
          CleanupVisitActivities(d, h, ans)

SpecPurge == InitOneFollow /\ [][NextPurge]_vars

\* ------------------------------------------- visits after the privacy fix

\* variant: the post_save receiver for Visit is still connected
visit_post_save_wired(created, objs) == IF created THEN objs ELSE <<>>

\* signals.py: the post_save receiver for Visit is commented out, a saved
\* visit makes the service create nothing
visit_post_save(created, objs) == <<>>

\* VisitListCreateView POST -> VisitSerializer.create -> Visit row saved;
\* post_save is sent to the receivers that are connected
VisitCreate(u, t) ==
    /\ ops < MaxOps
    /\ ops' = ops + 1
    /\ LET visit == [id |-> Cardinality(visits) + 1, user |-> u,
                     created_at |-> t]
           objs == visit_post_save(TRUE, visit_activities_to_create(visit))
       IN  /\ visits' = visits \cup {visit}
           /\ activities' = activities \cup bulk_create(objs, nextActivity, t)
           /\ nextActivity' = nextActivity + Len(objs)
           /\ last' = Op("visit_created", u, <<VISIT, visit.id>>, Len(objs), {},
                         <<>>, 0, 0)
    /\ now' = t
    /\ UNCHANGED <<follows, reviews, visibility, users, nextReview, nextFollow,
                   tx>>

\* the life of the records: requests that create and delete entities, the
\* backfill and the cleanup command, on a database that may hold visit
\* activities of the time the visit receiver was wired
NextLifecycle ==
    \/ \E u \in Users, t \in ClockReadings : VisitCreate(u, t)
    \/ \E u \in Users, t \in ClockReadings : CreateVisitActivity(u, t)
    \/ \E u \in Users, t \in ClockReadings : ReviewCreate(u, t)
    \/ \E r \in reviews : ReviewDestroy(r)
    \/ \E a \in Users, b \in Users, t \in ClockReadings : FollowUser(a, b, t)
    \/ \E a \in Users, b \in Users : UnfollowUser(a, b)
    \/ \E c \in 0..(now + 1), bs \in BatchSizes, t \in ClockReadings :
          Backfill(c, bs, FALSE, t)
    \/ \E h \in BOOLEAN, ans \in {"yes", "no"} :
          CleanupVisitActivities(FALSE, h, ans)

SpecLifecycle == InitOneFollow /\ [][NextLifecycle]_vars

\* ------------------------------------------------- the privacy predicate

\* Follow rows for the edges E, keyed and dated in the order they were made
FollowRows(E) ==
    {[id |-> (e[1] - 1) * NumUsers + e[2], follower |-> e[1], followed |-> e[2],
      created_at |-> (e[1] - 1) * NumUsers + e[2]] : e \in E}

\* any follow graph the follow requests can build (no self-follow, one row
\* per pair) and any activity_visibility settings
InitCanView ==
    \E E \in SUBSET {e \in Users \X Users : e[1] # e[2]},
       v \in [Users -> ACTIVITY_VISIBILITY_CHOICES] :
        /\ follows = FollowRows(E)
        /\ reviews = {}
        /\ visits = {}
        /\ visibility = v
        /\ users = UserRows(FollowRows(E))
        /\ activities = {}
        /\ nextReview = 1
        /\ nextFollow = NumUsers * NumUsers + 1
        /\ nextActivity = 1
        /\ now = NumUsers * NumUsers
        /\ ops = MaxOps
        /\ last = Op("init", 0, NoTarget, 0, {}, <<>>, 0, 0)
        /\ tx = {}

\* a call of can_view_user_activity(viewer, target_user)
CanViewUserActivity(viewer, target_user) ==
    /\ last' = Op("can_view_user_activity", viewer, <<"user", target_user>>,
                  0, {}, <<can_view_user_activity(viewer, target_user)>>, 0, 0)
    /\ UNCHANGED <<data, ops>>

NextCanView == \E viewer \in Users, target_user \in Users :
                  CanViewUserActivity(viewer, target_user)

SpecCanView == InitCanView /\ [][NextCanView]_vars

\* ------------------------------------------- backfill after concurrent saves

\* timezone.now() read by requests that different workers handle at the
\* same time: not earlier than the last reading, and possibly equal to it
ConcurrentClockReadings == {t \in {now, now + 1} : t > 0}

\* reviews and follows saved by concurrent workers, then the command
NextBackfill ==
    \/ \E u \in Users, t \in ConcurrentClockReadings : ReviewCreate(u, t)
    \/ \E a \in Users, b \in Users, t \in ConcurrentClockReadings :
          FollowUser(a, b, t)
    \/ \E c \in 0..(now + 1), bs \in BatchSizes, d \in BOOLEAN,
          t \in ClockReadings : Backfill(c, bs, d, t)

SpecBackfill == Init /\ [][NextBackfill]_vars

\* ------------------------------------- profile updates and the feed response

\* variant: the follow branch compares the recipient with the followed user
\* of the target Follow row
get_type_by_target(obj) ==
    LET is_own == obj.recipient = obj.actor
    IN  IF obj.activity_type = VISIT
        THEN (IF is_own THEN "own_visit" ELSE "following_visit")
        ELSE IF obj.activity_type = REVIEW
        THEN (IF is_own THEN "own_review" ELSE "following_review")
        ELSE IF obj.activity_type = FOLLOW
        THEN (IF \E f \in follows : /\ f.id = obj.target_object_id
                                     /\ f.followed = obj.recipient
              THEN "new_follower" ELSE "following_followed")
        ELSE obj.activity_type

\* ActivitySerializer.get_type
get_type(obj) ==
    LET is_own == obj.recipient = obj.actor
    IN  IF obj.activity_type = VISIT
        THEN (IF is_own THEN "own_visit" ELSE "following_visit")
        ELSE IF obj.activity_type = REVIEW
        THEN (IF is_own THEN "own_review" ELSE "following_review")
        ELSE IF obj.activity_type = FOLLOW
        THEN LET target_username ==
                   IF "target_username" \in DOMAIN obj.data
                   THEN obj.data.target_username ELSE <<>>
             IN  IF users[obj.recipient].username = target_username
                 THEN "new_follower" ELSE "following_followed"
        ELSE obj.activity_type

\* ActivitySerializer over the rows of a feed page: type and id of each item
serialize(rows) ==
    [i \in 1..Len(rows) |->
       [type |-> get_type(rows[i]), id |-> <<get_type(rows[i]), rows[i].id>>,
        row |-> rows[i].id]]

\* activity.views.ActivityFeedView.get without a limit parameter: the
\* response body
FeedResponse(u) ==
    /\ \E res \in get_user_feed(u, view_limit(50), 0) :
          last' = Op("feed_response", u, NoTarget, Len(res), {},
                     serialize(res), 50, 0)
    /\ UNCHANGED <<data, ops>>

\* UserDetailView PUT with UserUpdateSerializer: username and
\* is_anonymous_display are replaced; a username another user holds is
\* refused by the unique validator
UserUpdate(u, username, is_anonymous_display) ==
    /\ ops < MaxOps
    /\ ops' = ops + 1
    /\ \A v \in Users \ {u} : users[v].username # username
    /\ <<username, is_anonymous_display>>
         # <<users[u].username, users[u].is_anonymous_display>>
    /\ users' = [users EXCEPT ![u].username = username,
                              ![u].is_anonymous_display = is_anonymous_display]
    /\ last' = Op("user_updated", u, <<"user", u>>, 0, {}, <<>>, 0, 0)
    /\ UNCHANGED <<visits, follows, reviews, visibility, activities, nextReview,
                   nextFollow, nextActivity, now, tx>>

\* variant: the receiver has no `if created` test and fans out on every save
post_save_fanout_on_every_save(created, objs) == objs

\* signals.create_review_activity: `if created:` -- the rows a post_save of
\* a review makes the service create
post_save_fanout(created, objs) == IF created THEN objs ELSE <<>>

\* ReviewDetailView.perform_update: serializer.save() saves the row and
\* sends post_save with created == False; cafe.update_stats() touches the
\* cafe only
ReviewUpdate(r, wfc_rating) ==
    /\ r \in reviews
    /\ ops < MaxOps
    /\ ops' = ops + 1
    /\ wfc_rating # r.wfc_rating
    /\ LET review == [r EXCEPT !.wfc_rating = wfc_rating]
           objs == post_save_fanout(FALSE, review_activities_to_create(review))
       IN  /\ reviews' = (reviews \ {r}) \cup {review}
           /\ activities' = activities \cup bulk_create(objs, nextActivity, now)
           /\ nextActivity' = nextActivity + Len(objs)
           /\ last' = Op("review_updated", r.user, <<REVIEW, r.id>>, Len(objs),
                         {}, <<>>, 0, 0)
    /\ UNCHANGED <<visits, follows, visibility, users, nextReview, nextFollow,
                   now, tx>>

\* a follow that is refused, by the view (POST /follow/<username>/) or by
\* the model (Follow.objects.create from any other caller): no row is
\* inserted, post_save is not sent
FollowUserRejected(a, b, at) ==
    /\ ops < MaxOps
    /\ ops' = ops + 1
    /\ follow_refused(a, b)
    /\ last' = Op("follow_rejected", a, <<"user", b>>, 0, {},
                  <<IF at = "view" THEN "400"
                    ELSE IF a = b THEN "ValueError" ELSE "IntegrityError">>,
                  0, 0)
    /\ UNCHANGED data

\* UnfollowUserView.delete when the queryset delete() removed no row
\* (deleted_count == 0): 400 'You are not following this user'
UnfollowUserRejected(a, b) ==
    /\ ops < MaxOps
    /\ ops' = ops + 1
    /\ ~FollowExists(a, b)
    /\ last' = Op("unfollow_rejected", a, <<"user", b>>, 0, {}, <<"400">>, 0, 0)
    /\ UNCHANGED data

\* profile and follow requests after user 2 followed user 1
NextProfile ==
    \/ \E u \in Users, t \in ClockReadings : ReviewCreate(u, t)
    \/ \E r \in reviews, w \in Ratings : ReviewUpdate(r, w)
    \/ \E a \in Users, b \in Users, t \in ClockReadings : FollowUser(a, b, t)
    \/ \E a \in Users, b \in Users, at \in {"view", "model"} :
          FollowUserRejected(a, b, at)
    \/ \E a \in Users, b \in Users : UnfollowUser(a, b)
    \/ \E a \in Users, b \in Users : UnfollowUserRejected(a, b)
    \/ \E u \in Users, n \in Usernames, d \in BOOLEAN : UserUpdate(u, n, d)
    \/ \E u \in Users, v \in ACTIVITY_VISIBILITY_CHOICES : UpdateSettings(u, v)
    \/ \E u \in Users : FeedResponse(u)

SpecProfile == InitOneFollow /\ [][NextProfile]_vars

\* ------------------------------------------------------------- properties

Max(a, b) == IF a >= b THEN a ELSE b

\* the rows that reference one target
RowsOf(acts, ttype, tid) ==
    {a \in acts : a.target_content_type = ttype /\ a.target_object_id = tid}

\* the privacy rule of the fan-out as the design states it
Visible(viewer, owner) ==
    \/ viewer = owner
    \/ visibility[owner] = "public"
    \/ visibility[owner] = "followers"
       /\ \E f \in follows : f.follower = viewer /\ f.followed = owner

\* the rows some complete read of u's feed returns
FeedRows(u) ==
    UNION {{res[i] : i \in 1..Len(res)} :
             res \in get_user_feed(u, Cardinality(activities), 0)}

\* the rows a step inserted
Inserted(before, after) == {a \in after : \A b \in before : b.id # a.id}

\* two rows that differ at most in is_deleted
SameButDeleted(a, b) == [a EXCEPT !.is_deleted = b.is_deleted] = b

\* C1: a review fan-out writes exactly one record for the actor and for
\* each follower the privacy rule admits, for nobody else; with k such
\* followers k+1 records reference the review, each with the actor and the
\* review type, and k+1 is the count returned
C1_ReviewFanoutExact ==
    last.op = "review_created" =>
        LET A == last.user
            rows == RowsOf(activities, REVIEW, last.target[2])
            eligible == {f \in Users : /\ f # A
                                       /\ \E e \in follows : e.follower = f
                                                             /\ e.followed = A
                                       /\ Visible(f, A)}
        IN  /\ {a.recipient : a \in rows} = {A} \cup eligible
            /\ Cardinality(rows) = Cardinality(eligible) + 1
            /\ \A a \in rows : a.actor = A /\ a.activity_type = REVIEW
            /\ last.count = Cardinality(eligible) + 1

C1_Witness ==
    /\ last.op = "review_created"
    /\ last.count >= 2
    /\ Cardinality(RowsOf(activities, REVIEW, last.target[2])) >= 2

\* C2: delivering the creation event of a target a second time, right after
\* the first delivery, leaves the number of records of that target as it was
C2_RedeliveryKeepsCount ==
    [][\A T \in last.delivered \cap last'.delivered :
          Cardinality(RowsOf(activities', T[1], T[2]))
            = Cardinality(RowsOf(activities, T[1], T[2]))]_vars

\* C3: with every creation event delivered once, no recipient holds two
\* records of the same target
C3_OneRecordPerRecipientAndTarget ==
    \A a \in activities, b \in activities :
        (/\ a.recipient = b.recipient
         /\ a.target_content_type = b.target_content_type
         /\ a.target_object_id = b.target_object_id) => a = b

\* C4: get_user_feed returns live records of the user only, without
\* repetition, newest first, and they are the records at positions
\* offset+1 .. offset+limit of the user's live records in that order
C4_FeedExact ==
    last.op = "get_user_feed" =>
        LET res == last.result
            live == {a \in activities : a.recipient = last.user /\ ~a.is_deleted}
            newer(a) == Cardinality({b \in live : b.created_at > a.created_at})
            notOlder(a) == Cardinality({b \in live : b.created_at >= a.created_at})
        IN  /\ \A i \in 1..Len(res) : res[i] \in live
            /\ \A i \in 1..Len(res), j \in 1..Len(res) :
                  /\ i # j => res[i] # res[j]
                  /\ i < j => res[i].created_at >= res[j].created_at
            /\ Len(res) = Max(0, Min(last.limit,
                                     Cardinality(live) - last.offset))
            /\ \A i \in 1..Len(res) :
                  /\ newer(res[i]) <= last.offset + i - 1
                  /\ notOlder(res[i]) >= last.offset + i

C4_Witness ==
    /\ last.op = "get_user_feed"
    /\ last.offset = 1
    /\ Len(last.result) >= 1
    /\ \E a \in activities : a.recipient = last.user
                             /\ a.created_at > last.result[1].created_at
    /\ \E a \in activities : a.recipient # last.user

\* C5 as claimed: the view and the direct call both return at most
\* min(N, 100) records
C5_ClampEverywhere ==
    last.op \in {"feed_view", "get_user_feed"} =>
        Len(last.result) <= Min(last.limit, HardMaxLimit)

\* C5 amended: the view returns at most min(N, 100) records; the direct
\* call is not clamped and returns at most N records (none for N <= 0)
C5_ClampInViewOnly ==
    /\ last.op = "feed_view" =>
          Len(last.result) <= Min(last.limit, HardMaxLimit)
    /\ last.op = "get_user_feed" =>
          Len(last.result) <= Max(last.limit, 0)

C5_Witness ==
    /\ last.op = "feed_view"
    /\ last.limit > HardMaxLimit
    /\ Len(last.result) = HardMaxLimit
    /\ Cardinality({a \in activities : a.recipient = last.user}) > HardMaxLimit

\* C6: a soft delete of a target removes no row, marks every row of the
\* target deleted, leaves every other field and every other row as it was,
\* and afterwards no feed holds a row of the target
C6_SoftDeleteFrame ==
    [][last'.op \in {"review_deleted", "follow_removed"} =>
         LET T == last'.target
             ofT(a) == a.target_content_type = T[1] /\ a.target_object_id = T[2]
         IN  /\ Cardinality(activities') = Cardinality(activities)
             /\ \A a \in activities : \E b \in activities' :
                    /\ b.id = a.id
                    /\ SameButDeleted(a, b)
                    /\ b.is_deleted = (a.is_deleted \/ ofT(a))
             /\ \A u \in Users : \A a \in FeedRows(u)' : ~ofT(a)]_vars

C6_Witness ==
    /\ last.op = "review_deleted"
    /\ last.count >= 2
    /\ \E a \in activities : ~a.is_deleted /\ a.target_object_id = last.target[2]

\* C7: deleting a review, which soft-deletes its activities twice, leaves
\* the activities as one soft delete leaves them
C7_SoftDeleteTwiceIsOnce ==
    [][last'.op = "review_deleted" =>
         activities' = soft_delete_activities(activities, REVIEW,
                                              last'.target[2])]_vars

C7_Witness ==
    /\ last.op = "review_deleted"
    /\ \E a \in RowsOf(activities, REVIEW, last.target[2]) :
          a.is_deleted /\ a.recipient # a.actor

\* C8 as claimed: while an owner's visibility is private no other user's
\* feed holds a review record of that owner
C8_PrivateNeverInOtherFeeds ==
    \A owner \in Users : \A u \in Users \ {owner} :
        visibility[owner] = "private" =>
            \A a \in FeedRows(u) :
                ~(a.activity_type = REVIEW /\ a.actor = owner)

\* C8 amended: a fan-out that runs while the owner's visibility is private
\* writes review records for the owner only
C8_PrivateAtFanout ==
    [][\A a \in Inserted(activities, activities') :
          (a.activity_type = REVIEW /\ visibility[a.actor] = "private")
             => a.recipient = a.actor]_vars

C8_Witness ==
    /\ last.op = "review_created"
    /\ visibility[last.user] = "private"
    /\ FollowerIds(follows, last.user) # {}

\* C9 as claimed: while an owner's visibility is followers, every other
\* user whose feed holds a review record of the owner follows the owner now
C9_FollowersOnlyCurrent ==
    \A owner \in Users : \A u \in Users \ {owner} :
        visibility[owner] = "followers" =>
            \A a \in FeedRows(u) :
                (a.activity_type = REVIEW /\ a.actor = owner)
                   => \E f \in follows : f.follower = u /\ f.followed = owner

\* C9 amended: a fan-out that runs while the owner's visibility is followers
\* writes review records only for the owner and for users who follow the
\* owner at that moment
C9_FollowersAtFanout ==
    [][\A a \in Inserted(activities, activities') :
          (/\ a.activity_type = REVIEW
           /\ visibility[a.actor] = "followers"
           /\ a.recipient # a.actor)
             => \E f \in follows : f.follower = a.recipient
                                   /\ f.followed = a.actor]_vars

C9_Witness ==
    /\ last.op = "review_created"
    /\ visibility[last.user] = "followers"
    /\ last.count >= 2

\* C10: a change of activity_visibility leaves every stored record and
\* every feed as it was
C10_SettingsChangeKeepsFeeds ==
    [][last'.op = "settings_updated" =>
         /\ activities' = activities
         /\ \A u \in Users :
               get_user_feed(u, Cardinality(activities), 0)'
                 = get_user_feed(u, Cardinality(activities), 0)]_vars

C10_Witness ==
    /\ last.op = "settings_updated"
    /\ visibility[last.user] = "private"
    /\ \E a \in activities : /\ a.actor = last.user
                             /\ a.recipient # last.user
                             /\ a.activity_type = REVIEW
                             /\ ~a.is_deleted

\* C11: after a follow A->B is created, whatever the activity_visibility of
\* A and of B, the store holds a live follow record of that follow with
\* recipient B and actor A
C11_FollowedAlwaysNotified ==
    last.op = "follow_created" =>
        \E f \in follows :
            /\ f.id = last.target[2]
            /\ f.follower = last.user
            /\ \E a \in RowsOf(activities, FOLLOW, f.id) :
                  /\ a.recipient = f.followed
                  /\ a.actor = f.follower
                  /\ a.activity_type = FOLLOW
                  /\ ~a.is_deleted

C11_Witness ==
    /\ last.op = "follow_created"
    /\ visibility[last.user] = "private"
    /\ \E f \in follows : /\ f.id = last.target[2]
                          /\ visibility[f.followed] = "private"

C13_BackfillFillsGaps ==
    last.op = "backfill" =>
        \A r \in reviews :
            LET rows == RowsOf(activities, REVIEW, r.id)
                audience == {r.user} \cup FollowerIds(follows, r.user)
                before == {a \in rows : a.created_at < now}
            IN  (/\ <<REVIEW, r.id>> \in last.delivered
                 /\ visibility[r.user] = "public"
                 /\ \E a \in before : a.recipient = r.user
                 /\ \E u \in audience : \A a \in before : a.recipient # u) =>
                    /\ {a.recipient : a \in rows} = audience
                    /\ Cardinality(rows) = Cardinality(audience)

\* C14: in every state, of every fan-out call the activities table holds
\* either all the records (the call has committed) or none (the call is
\* still running, or it failed, at whatever row), and no feed read returns
\* a record of a call that has not committed
C14_FanoutAllOrNothing ==
    /\ \A c \in tx :
          LET present == {a \in RowsOf(activities, c.target[1], c.target[2]) :
                            a.created_at = c.t}
          IN  IF c.status = "committed"
              THEN /\ Cardinality(present) = Len(c.objs)
                   /\ \A i \in 1..Len(c.objs) :
                         \E a \in present : a.recipient = c.objs[i].recipient
              ELSE present = {}
    /\ last.op = "get_user_feed" =>
          \A i \in 1..Len(last.result) : \A c \in tx :
              (/\ last.result[i].target_content_type = c.target[1]
               /\ last.result[i].target_object_id = c.target[2])
                 => c.status = "committed"

C14_Witness ==
    /\ last.op = "get_user_feed"
    /\ \E c \in tx : /\ c.status = "open"
                     /\ 0 < c.written
                     /\ c.written < Len(c.objs)
    /\ \E c \in tx : c.status = "rolled_back" /\ c.written > 0

\* C15: when the fan-out of a new review or a new follow fails, the review
\* or follow is stored, the request returns normally (the exception does
\* not leave the receiver) and no activity record references the entity
C15_FanoutFailureSwallowed ==
    /\ last.op = "review_created_fanout_failed" =>
          /\ \E r \in reviews : r.id = last.target[2] /\ r.user = last.user
          /\ last.result = <<"returned">>
          /\ RowsOf(activities, REVIEW, last.target[2]) = {}
    /\ last.op = "follow_created_fanout_failed" =>
          /\ \E f \in follows : f.id = last.target[2] /\ f.follower = last.user
          /\ last.result = <<"returned">>
          /\ RowsOf(activities, FOLLOW, last.target[2]) = {}

C15_Witness ==
    /\ last.op = "review_created_fanout_failed"
    /\ FollowerIds(follows, last.user) # {}
    /\ \E a \in activities : a.activity_type = REVIEW

\* C16: when the soft delete of the activities fails while a review or a
\* follow is being deleted, the review or follow is deleted all the same
C16_SoftDeleteFailureKeepsDeletion ==
    /\ last.op = "review_delete_soft_delete_failed" =>
          \A r \in reviews : r.id # last.target[2]
    /\ last.op = "follow_remove_soft_delete_failed" =>
          \A f \in follows : f.id # last.target[2]

\* C17: in a backfill run the items whose fan-out raises are counted as
\* failed and get no record from the run, every other selected item, the
\* later ones included, is processed and gets its records, and for reviews
\* and for follows processed + failed is the number of items selected
C17_BackfillSurvivesItemFailure ==
    last.op = "backfill_with_failures" =>
        /\ last.processed[1] + last.failed[1] = last.total[1]
        /\ last.processed[2] + last.failed[2] = last.total[2]
        /\ last.delivered \cup last.failed_items = last.selected
        /\ last.delivered \cap last.failed_items = {}
        /\ Cardinality(last.failed_items) = last.failed[1] + last.failed[2]
        /\ \A T \in last.failed_items :
              \A a \in RowsOf(activities, T[1], T[2]) : a.created_at < now
        /\ \A T \in last.delivered :
              \E a \in RowsOf(activities, T[1], T[2]) : a.created_at = now

\* a review of the run failed and a follow, processed after the reviews,
\* got its records
C17_Witness ==
    /\ last.op = "backfill_with_failures"
    /\ \E F \in last.failed_items, P \in last.delivered :
          /\ F[1] = REVIEW
          /\ P[1] = FOLLOW
          /\ \E a \in RowsOf(activities, P[1], P[2]) : a.created_at = now

\* C18: a run of the cleanup command with --hard-delete reports the number
\* of live visit records the store held before the run, and unless the
\* operator's answer is yes (in any letter case) it leaves the store as it
\* was
C18_HardDeleteNeedsConfirmation ==
    [][(/\ last'.op = "cleanup_visit_activities"
        /\ last'.hard_delete
        /\ ~last'.dry_run) =>
          /\ last'.count = Cardinality({a \in activities :
                                          a.activity_type = VISIT /\ ~a.is_deleted})
          /\ lower(last'.answer) # "yes" => activities' = activities]_vars

C18_Witness ==
    /\ last.op = "cleanup_visit_activities"
    /\ last.hard_delete
    /\ ~last.dry_run
    /\ last.answer = "no"
    /\ last.result = <<"cancelled">>
    /\ last.count >= 2
    /\ Cardinality(visit_activities(activities)) = last.count

\* C19: after a confirmed run of the cleanup command with --hard-delete
\* the store holds no visit record, live or soft-deleted, and the records
\* of the other types are the ones it held before
C19_HardPurgeRemovesEveryVisitRecord ==
    [][(/\ last'.op = "cleanup_visit_activities"
        /\ last'.result = <<"hard_deleted">>) =>
          /\ \A a \in activities' : a.activity_type # VISIT
          /\ {a \in activities' : a.activity_type # VISIT}
               = {a \in activities : a.activity_type # VISIT}]_vars

\* C20: can_view_user_activity(viewer, owner) is true when viewer = owner,
\* true when the owner's activity_visibility is public, false when it is
\* private and viewer # owner, and when it is followers and viewer # owner
\* it is true exactly when a follow row viewer -> owner exists
C20_CanViewPredicate ==
    last.op = "can_view_user_activity" =>
        LET viewer == last.user
            owner == last.target[2]
            answer == last.result[1]
            edge == \E f \in follows : f.follower = viewer /\ f.followed = owner
        IN  /\ viewer = owner => answer = TRUE
            /\ visibility[owner] = "public" => answer = TRUE
            /\ (visibility[owner] = "private" /\ viewer # owner) => answer = FALSE
            /\ (visibility[owner] = "followers" /\ viewer # owner) => answer = edge

C20_Witness ==
    /\ last.op = "can_view_user_activity"
    /\ last.user # last.target[2]
    /\ visibility[last.target[2]] = "followers"
    /\ last.result = <<FALSE>>
    /\ \E f \in follows : f.follower = last.target[2] /\ f.followed = last.user

\* C21: the type shown for a feed item is a function of the stored record:
\* a review record reads 'own_review' exactly when its recipient is its
\* actor and 'following_review' otherwise; a follow record reads
\* 'new_follower' exactly when its recipient is the followed user of its
\* Follow and 'following_followed' otherwise -- also after users have
\* changed their profile.
C21_TypeFromStoredFields ==
    last.op = "feed_response" =>
      \A i \in 1..Len(last.result) :
        \A a \in activities : a.id = last.result[i].row =>
          /\ a.activity_type = REVIEW =>
                last.result[i].type = (IF a.recipient = a.actor
                                       THEN "own_review" ELSE "following_review")
          /\ a.activity_type = FOLLOW =>
                \A f \in follows : f.id = a.target_object_id =>
                  last.result[i].type = (IF a.recipient = f.followed
                                         THEN "new_follower"
                                         ELSE "following_followed")

\* C22: an update of a review (post_save with created == False), of a
\* user's username or display flag, or of a user's settings creates no
\* activity record and changes no field of a stored one.
C22_UpdatesLeaveRecordsAlone ==
    [][last'.op \in {"review_updated", "user_updated", "settings_updated"}
         => activities' = activities]_vars

\* a review was re-rated: its records keep the rating it was posted with
C22_Witness ==
    /\ last.op = "review_updated"
    /\ \E r \in reviews, a \in activities :
         /\ <<REVIEW, r.id>> = last.target
         /\ a.target_content_type = REVIEW /\ a.target_object_id = r.id
         /\ a.data.wfc_rating # r.wfc_rating

\* C24: the follow graph has no self-edge and at most one row per ordered
\* pair; a follow that would break this is refused, sends no fan-out and
\* leaves the follows and the activities as they were.
C24_NoSelfOrDuplicateFollow ==
    [][/\ \A f \in follows' : f.follower # f.followed
       /\ \A f \in follows', g \in follows' :
            (f.follower = g.follower /\ f.followed = g.followed) => f = g
       /\ last'.op = "follow_rejected" =>
            /\ follow_refused(last'.user, last'.target[2])
            /\ follows' = follows
            /\ activities' = activities
            /\ nextActivity' = nextActivity]_vars

\* a second follow of the same pair was refused
C24_Witness ==
    /\ last.op = "follow_rejected"
    /\ last.user # last.target[2]
    /\ FollowExists(last.user, last.target[2])
    /\ last.result = <<"IntegrityError">>

\* C23: deleting a Review or Follow that has no activity record at all (its
\* fan-out failed) is a no-op on the activities: soft_delete_activities
\* returns 0, nothing is raised (the entity is deleted) and the store is
\* unchanged.
C23_SoftDeleteOfNothing ==
    [][(/\ last'.op \in {"review_deleted", "follow_removed"}
        /\ RowsOf(activities, last'.target[1], last'.target[2]) = {})
         => /\ last'.count = 0
            /\ activities' = activities
            /\ \A r \in reviews' : <<REVIEW, r.id>> # last'.target
            /\ \A f \in follows' : <<FOLLOW, f.id>> # last'.target]_vars

\* a review whose fan-out had failed was deleted while other records exist
C23_Witness ==
    /\ last.op = "review_deleted"
    /\ last.count = 0
    /\ RowsOf(activities, last.target[1], last.target[2]) = {}
    /\ \E a \in activities : ~a.is_deleted

\* the created_at of the Review or Follow a fan-out call was made for
CreatedAtOf(target) ==
    LET rows == IF target[1] = REVIEW THEN reviews ELSE follows
    IN  (CHOOSE x \in rows : x.id = target[2]).created_at

\* C25: one run of the backfill command calls the fan-out exactly once for
\* every Review and every Follow created at or after the cutoff, in
\* non-decreasing created_at order within each kind, whatever the batch
\* size, and for no entity older than the cutoff.
C25_BackfillOncePerEntityInOrder ==
    last.op = "backfill" =>
      LET selected ==
            {<<REVIEW, r.id>> : r \in {x \in reviews : x.created_at >= last.cutoff}}
            \cup {<<FOLLOW, f.id>> :
                    f \in {x \in follows : x.created_at >= last.cutoff}}
          calls == last.calls
      IN  /\ \A i \in 1..Len(calls) : calls[i] \in selected
          /\ \A e \in selected :
               Cardinality({i \in 1..Len(calls) : calls[i] = e}) = 1
          /\ \A i \in 1..Len(calls), j \in 1..Len(calls) :
               (i < j /\ calls[i][1] = calls[j][1])
                 => CreatedAtOf(calls[i]) <= CreatedAtOf(calls[j])

\* C26: no visit-type activity record is created by a wired hook or by the
\* backfill: in every step other than a direct call of the unwired
\* ActivityService.create_visit_activity, every visit record of the store
\* was there before, so their number never goes up.
C26_NoNewVisitRecords ==
    [][last'.op # "visit_activity_created"
         => /\ \A b \in activities' :
                 b.activity_type = VISIT => \E a \in activities : a.id = b.id
            /\ Cardinality({b \in activities' : b.activity_type = VISIT})
                 <= Cardinality({a \in activities : a.activity_type = VISIT})]_vars

\* a visit was saved and the backfill then ran over it: no visit record
C26_Witness ==
    /\ last.op = "backfill"
    /\ \E v \in visits : v.created_at >= last.cutoff
    /\ \A a \in activities : a.activity_type # VISIT

\* C29: is_deleted never goes back: a record that is soft-deleted stays
\* soft-deleted through every fan-out, soft delete, backfill run and cleanup
\* run, for as long as the row exists.
C29_IsDeletedMonotonic ==
    [][\A a \in activities, b \in activities' :
         (a.id = b.id /\ a.is_deleted) => b.is_deleted]_vars

\* the cleanup command soft-deleted visit records while soft-deleted
\* records of a removed follow were in the store
C29_Witness ==
    /\ last.op = "cleanup_visit_activities"
    /\ last.result = <<"soft_deleted">>
    /\ \E a \in activities : a.activity_type = FOLLOW /\ a.is_deleted
    /\ \E a \in activities : a.activity_type = VISIT /\ a.is_deleted

\* C27: no live record outlives its target: in every reachable state, also
\* when a review or follow is deleted by another request while its
\* post_save fan-out is still running, every record that is not soft-deleted
\* references a Review or Follow that exists.
C27_NoLiveRecordOutlivesTarget ==
    \A a \in activities :
      ~a.is_deleted =>
        /\ a.target_content_type = REVIEW =>
              \E r \in reviews : r.id = a.target_object_id
        /\ a.target_content_type = FOLLOW =>
              \E f \in follows : f.id = a.target_object_id

\* the live follow records in B's feed that say "A followed B"
FollowedYouRows(A, B) ==
    {a \in activities : /\ ~a.is_deleted
                         /\ a.activity_type = FOLLOW
                         /\ a.recipient = B /\ a.actor = A
                         /\ a.data.target_username = users[B].username}

\* C28: after any sequence of follows and unfollows without fan-out
\* failures, B's feed holds a live follow record with actor A about B
\* exactly when the edge A -> B exists; an unfollow soft-deletes every
\* record of that follow, whoever the recipient; a re-follow writes fresh
\* records under the new follow id and revives none of the old ones.
C28_FollowRecordsTrackTheEdge ==
    /\ \A A \in Users, B \in Users :
         A # B => (FollowedYouRows(A, B) # {} <=> FollowExists(A, B))
    /\ \A a \in activities :
         (a.target_content_type = FOLLOW
          /\ \A f \in follows : f.id # a.target_object_id) => a.is_deleted
    /\ last.op = "follow_created" =>
         \A a \in RowsOf(activities, FOLLOW, last.target[2]) :
           /\ ~a.is_deleted
           /\ a.created_at = now
           /\ \A b \in activities :
                (b.target_content_type = FOLLOW
                 /\ b.target_object_id < last.target[2]
                 /\ b.is_deleted) => b.id < a.id

\* A followed B again after an unfollow: the old record is still
\* soft-deleted next to the live one
C28_Witness ==
    /\ last.op = "follow_created"
    /\ \E f \in follows, a \in activities, b \in activities :
         /\ f.id = last.target[2]
         /\ a \in FollowedYouRows(f.follower, f.followed)
         /\ b.is_deleted /\ b.activity_type = FOLLOW
         /\ b.recipient = f.followed /\ b.actor = f.follower
         /\ b.target_object_id < f.id
         /\ b.data = a.data

\* C30: the denormalised counters agree with the follow graph after any
\* sequence of follows (Follow.save) and unfollows (the queryset delete of
\* UnfollowUserView): followers_count is the number of edges that point to
\* the user, following_count the number of edges that leave the user.
C30_FollowCountersMatchGraph ==
    \A u \in Users :
      /\ users[u].followers_count
           = Cardinality({f \in follows : f.followed = u})
      /\ users[u].following_count
           = Cardinality({f \in follows : f.follower = u})

====
